---------------------------- MODULE Spec2Model ----------------------------
(***************************************************************************)
(* A model of the vidwa-compressor transcoding service.                    *)
(*                                                                         *)
(* The service functions (loadFfmpeg, getVideoMetadata, compressVideo,     *)
(* convertToGif) are async functions over one module-level engine handle.  *)
(* Each action below is the code that runs between two awaits: from the    *)
(* resumption of the function to the next engine call it suspends on.  The *)
(* engine is the environment: every engine call resolves or throws, and    *)
(* while an exec is in flight the engine emits progress events with raw    *)
(* values of its own choosing.                                             *)
(*                                                                         *)
(* Numbers.  Durations and trim times are whole seconds, target sizes are  *)
(* whole megabytes.  A raw progress fraction is held in thousandths (1500  *)
(* is 1.5) and an elapsed time in milliseconds, so that Math.round and     *)
(* Math.floor are computed exactly on integers.                            *)
(*                                                                         *)
(* Strings.  A time string "HH:MM:SS" is the sequence of its colon         *)
(* separated fields, <<h, m, s>>; the empty string is <<>>.                *)
(*                                                                         *)
(* Specifications.  Spec is one session of service calls made one after    *)
(* the other (loadFfmpeg, getVideoMetadata, compressVideo, convertToGif).  *)
(* SpecLoad is loadFfmpeg alone, with overlapping callers and the          *)
(* constructed instances told apart.  SpecApp is an App component over the *)
(* service: its handlers, their continuations, and the service calls they  *)
(* await, several of which can be in flight.  Each specification leaves    *)
(* the variables of the others at their initial values.                    *)
(***************************************************************************)
EXTENDS Integers, Sequences, FiniteSets, TLC

VARIABLES
    variant,    \* which implementation of the service module this session runs
    ffmpeg,     \* the module-level handle: "null", "created" (not loaded), "loaded"
    files,      \* names present in the engine's scratch filesystem
    listeners,  \* listeners attached to the engine (progress, and the probe's log)
    job,        \* the call in progress (or the last one finished)
    calls,      \* engine calls made by the call in progress, in order
    delivered,  \* percentages the call has passed to its onProgress, in order
    emitted,    \* progress events the engine emitted during the current exec
    \* loadFfmpeg, call by call (the specification SpecLoad)
    created,    \* how many FFmpeg instances have been constructed: ids 1..created
    handle,     \* the module-level variable, by identity: 0 (null) or an instance id
    loadedEngines,  \* the instances whose load() has resolved
    loaders,    \* the loadFfmpeg call of each caller
    \* the App component over the service (the specification SpecApp)
    app,        \* which App component is mounted
    appState,   \* useState<AppState>
    videoFile,  \* the selected file (inputFile in the first App): 0 is null
    metadata,   \* part_000: the file whose probe result is held: 0 is null
    error,      \* useState<string | null>: "" is null
    output,     \* the file whose compressed blob or URL is held: 0 is none
    selects,    \* part_000: the handleFileSelect continuation of each file
    compresses, \* the handleCompress continuation of each file
    outcome,    \* what the last service call to settle did; "none" once the user acts
    failed      \* a compression has failed and no reset has run since

\* The transcoding calls of one session.
serviceVars == <<ffmpeg, files, listeners, job, calls, delivered, emitted>>

\* The loadFfmpeg calls of a session, with the instances told apart.
loadVars == <<created, handle, loadedEngines, loaders>>

\* What the engine holds and what the call in progress did with it.
engineVars == <<files, listeners, job, calls, delivered, emitted>>

\* The state of the App component and of its handlers in flight.
appVars ==
    <<app, appState, videoFile, metadata, error, output, selects, compresses,
      outcome, failed>>

vars == <<variant, serviceVars, loadVars, appVars>>

---------------------------------------------------------------------------
(* Bounds of the model *)

\* progress events the engine may emit during one exec
MaxEvents == 2

\* FFmpeg instances one session may construct
MaxInstances == 3

(* Inputs *)

\* The App components: the first and the second of App.tsx (lines 98-296 and
\* 305-537) and the one of part_000.
Apps == {"App1", "App2", "part000"}

\* The videos the user may select; 0 stands for no file or a file that is not a video.
Files == {1, 2}

\* The callers of loadFfmpeg: two mounts of the App's effect, or the App and a retry.
Callers == {1, 2}

Variants == {"service", "part001", "timeBased"}

Durations == {60, 300, 20000}

TargetSizes == {1, 8}

\* "", "10" and "00:01:00"
TimeStrings == {<<>>, <<10>>, <<0, 1, 0>>}

\* The 'Duration: HH:MM:SS.F' line of the probe's log as <<HH, MM, SS, F>>, F the
\* digits after the point; <<>> when the log has no such line ('Duration: N/A').
\* 00:01:05.50, 00:01:05.5, 00:01:05.500, 00:00:00.00 and 01:00:00.04.
DurationLines ==
    {<<>>, <<0, 1, 5, <<5, 0>>>>, <<0, 1, 5, <<5>>>>, <<0, 1, 5, <<5, 0, 0>>>>,
     <<0, 0, 0, <<0, 0>>>>, <<1, 0, 0, <<0, 4>>>>}

\* The width of the 'Stream ... Video: ... WxH' line of the probe's log (the
\* height has as many digits); 0 when the log has no video stream line.
StreamWidths == {0, 64, 1280}

\* Readings of Date.now(), in milliseconds: two calls may read the same one.
Clock == {1000, 1001}

\* The engine's progress events: the raw fraction in thousandths (-0.5, 0.3, 1.0,
\* 1.5) and the elapsed time in milliseconds (-30 s, 18 s, 60 s, 400 s).
ProgressEvents ==
    {[progress |-> -500, time |-> -30000], [progress |-> 300, time |-> 18000],
     [progress |-> 1000, time |-> 60000], [progress |-> 1500, time |-> 400000]}

---------------------------------------------------------------------------
(* Pure helpers, as the code computes them *)

Min(a, b) == IF a <= b THEN a ELSE b

\* Math.round(num / den) for den > 0: halves round towards +infinity
Round(num, den) == (2 * num + den) \div (2 * den)

\* Math.floor(num / den) for den > 0
Floor(num, den) == num \div den

RECURSIVE Reduce(_, _)
\* fields.reduce((acc, time) => (60 * acc) + +time, acc)
Reduce(fields, acc) ==
    IF fields = <<>> THEN acc
    ELSE Reduce(Tail(fields), 60 * acc + Head(fields))

\* time.split(':').reduce((acc, time) => (60 * acc) + +time, 0)
ToSeconds(time) == Reduce(time, 0)

\* Mutant: the trim is never used for the budget.
EffectiveDurationIgnoresTrim(duration, startTime, endTime) == duration

\* Mutant: 'startTime || endTime' in place of 'startTime && endTime'.
EffectiveDurationEitherGiven(duration, startTime, endTime) ==
    LET trimmed == IF startTime # <<>> \/ endTime # <<>>
                   THEN ToSeconds(endTime) - ToSeconds(startTime)
                   ELSE duration
    IN  IF trimmed <= 0 THEN duration ELSE trimmed

\* let effectiveDuration = duration; if (startTime && endTime) ...; if (<= 0) ...
EffectiveDuration(duration, startTime, endTime) ==
    LET trimmed == IF startTime # <<>> /\ endTime # <<>>
                   THEN ToSeconds(endTime) - ToSeconds(startTime)
                   ELSE duration
    IN  IF trimmed <= 0 THEN duration ELSE trimmed

\* const audioBitrate = removeAudio ? 0 : 128
AudioBitrate(removeAudio) == IF removeAudio THEN 0 ELSE 128

\* Mutant: Math.round in place of Math.floor.
TargetVideoBitrateRounded(targetSizeMB, effectiveDuration, removeAudio) ==
    Round(targetSizeMB * 1024 * 8 - AudioBitrate(removeAudio) * effectiveDuration,
          effectiveDuration)

\* Math.floor((targetSizeMB * 1024 * 8) / effectiveDuration - audioBitrate)
TargetVideoBitrate(targetSizeMB, effectiveDuration, removeAudio) ==
    Floor(targetSizeMB * 1024 * 8 - AudioBitrate(removeAudio) * effectiveDuration,
          effectiveDuration)

\* Math.round(Math.min(progress, 1) * 100)
CompressPercentage(progress) == Round(Min(progress, 1000) * 100, 1000)

\* 50 + Math.round(Math.min(progress, 1) * 50)
GifPercentage(progress) == 50 + Round(Min(progress, 1000) * 50, 1000)

\* Math.min(100, Math.round((time / duration) * 100))
TimePercentage(time, duration) == Min(100, Round(time * 100, 1000 * duration))

\* const inputFileName = 'input.mp4' (service) / 'input.video' (part001)
RECURSIVE ParseInt(_)
\* parseInt(digits, 10)
ParseInt(digits) ==
    IF digits = <<>> THEN 0
    ELSE 10 * ParseInt(SubSeq(digits, 1, Len(digits) - 1)) + digits[Len(digits)]

\* The duration getVideoMetadata of ffmpegService.ts parses from a Duration
\* line, in milliseconds: hours * 3600 + minutes * 60 + seconds +
\* deciseconds / 100 (lines 47-53); 0 when no line matched.
ParseDuration(line) ==
    IF line = <<>> THEN 0
    ELSE (line[1] * 3600 + line[2] * 60 + line[3]) * 1000 + ParseInt(line[4]) * 10

\* part_001 (lines 60-66): the pattern ends in \.\d{2} and the fraction is not
\* captured: hours * 3600 + minutes * 60 + seconds.
ParseDurationPart001(line) ==
    IF line = <<>> \/ Len(line[4]) < 2 THEN 0
    ELSE (line[1] * 3600 + line[2] * 60 + line[3]) * 1000

\* ffmpegService.ts line 56: (\d{3,5})x(\d{3,5}) matches widths of 3 to 5 digits.
ParseWidth(streamWidth) ==
    IF streamWidth >= 100 /\ streamWidth <= 99999 THEN streamWidth ELSE 0

\* part_001 line 68: (\d+)x(\d+) matches any width.
ParseWidthPart001(streamWidth) == streamWidth

\* inputFileName of getVideoMetadata at clock reading now, for a file named
\* video.mp4: `meta_${Date.now()}_${videoFile.name}` in ffmpegService.ts (line
\* 38), 'input.video' in part_001 (line 35).
MetaFileName(now) ==
    IF variant = "part001" THEN "input.video"
    ELSE IF now = 1000 THEN "meta_1000_video.mp4" ELSE "meta_1001_video.mp4"

InputFileName == IF variant = "part001" THEN "input.video" ELSE "input.mp4"

OutputFileName == "output.mp4"

PaletteFileName == "palette.png"

GifFileName == "output.gif"

---------------------------------------------------------------------------
(* State *)

\* An engine call: writeFile/readFile/deleteFile carry a file name, exec a command.
\* The command keeps the arguments the claims read: the trim (-ss, -to), the
\* bitrates (-b:v, -maxrate, -bufsize in kbit/s; 0 where the option is absent),
\* -an, and the output file name.
NoCommand ==
    [ss |-> <<>>, to |-> <<>>, bv |-> 0, maxrate |-> 0, bufsize |-> 0,
     an |-> FALSE, out |-> ""]

FileCall(op, name) == [op |-> op, file |-> name, cmd |-> NoCommand]

ExecCall(cmd) == [op |-> "exec", file |-> "", cmd |-> cmd]

\* No call has been made yet.
NoJob ==
    [fn |-> "none", pc |-> "idle", duration |-> 0, targetSizeMB |-> 0,
     removeAudio |-> FALSE, startTime |-> <<>>, endTime |-> <<>>,
     effectiveDuration |-> 0, targetVideoBitrate |-> 0,
     wrote |-> {}, thrown |-> "", error |-> "", scratch |-> "",
     log |-> [duration |-> <<>>, width |-> 0],
     info |-> [duration |-> 0, width |-> 0]]

\* A call is in flight: it is suspended on an engine call.
InFlight == job.pc \notin {"idle", "resolved", "rejected"}

\* The call has settled and its caller has not yet taken the outcome.
Settled == job.pc \in {"resolved", "rejected"}

\* The engine is executing a command: it may emit progress events.
Executing == job.pc \in {"exec", "paletteExec", "gifExec"}

\* The caller's state when a new call starts: the earlier call's listeners, if
\* still attached, are now another job's.
Stale(ls) == {[l EXCEPT !.owner = "stale"] : l \in ls}

Listener(kind, duration) == [owner |-> "current", kind |-> kind, duration |-> duration]

Reject(thrown) == [job EXCEPT !.pc = "rejected", !.error = thrown]

\* A caller of loadFfmpeg that has not called: inst is the instance its call
\* constructed (0: none), handleLoaded whether the module-level handle was a
\* loaded instance at the moment the call resolved.
NoLoad == [pc |-> "idle", inst |-> 0, handleLoaded |-> FALSE]

\* The module as imported: let ffmpeg: FFmpeg | null = null, no call made.
ServiceIdle ==
    /\ ffmpeg = "null"
    /\ files = {}
    /\ listeners = {}
    /\ job = NoJob
    /\ calls = <<>>
    /\ delivered = <<>>
    /\ emitted = 0

LoadIdle ==
    /\ created = 0
    /\ handle = 0
    /\ loadedEngines = {}
    /\ loaders = [c \in Callers |-> NoLoad]

\* The useState initial values of an App (App.tsx 99-107 and 306-312, part_000
\* 18-27), no handler in flight.
AppUnmounted ==
    /\ appState = "IDLE"
    /\ videoFile = 0
    /\ metadata = 0
    /\ error = ""
    /\ output = 0
    /\ selects = [f \in Files |-> "none"]
    /\ compresses = [f \in Files |-> "none"]
    /\ outcome = "none"
    /\ failed = FALSE

\* No App is mounted.
AppIdle ==
    /\ app = "none"
    /\ AppUnmounted

Init ==
    /\ variant \in Variants
    /\ ServiceIdle
    /\ LoadIdle
    /\ AppIdle

---------------------------------------------------------------------------
(* loadFfmpeg *)

\* if (ffmpeg && ffmpeg.loaded) return; ffmpeg = new FFmpeg(); await ffmpeg.load(..)
\* A new instance has a scratch filesystem and a listener table of its own.
loadFfmpeg ==
    /\ variant # "part001"
    /\ job.pc = "idle"
    /\ \/ /\ ffmpeg = "loaded"
          /\ UNCHANGED vars
       \/ /\ ffmpeg # "loaded"
          /\ \E ok \in BOOLEAN : ffmpeg' = IF ok THEN "loaded" ELSE "created"
          /\ files' = {}
          /\ listeners' = {}
          /\ UNCHANGED <<loadVars, appVars, variant, job, calls, delivered, emitted>>

---------------------------------------------------------------------------
(* compressVideo, src/services/ffmpegService.ts *)

\* The command of lines 124-145.
CompressCommand(startTime, endTime, targetVideoBitrate, removeAudio) ==
    [ss |-> startTime, to |-> endTime, bv |-> targetVideoBitrate,
     maxrate |-> Floor(targetVideoBitrate * 12, 10),
     bufsize |-> Floor(targetVideoBitrate * 15, 10),
     an |-> removeAudio, out |-> OutputFileName]

\* Mutant: '< 0' in place of '<= 0'.
InfeasibleStrict(targetVideoBitrate) == targetVideoBitrate < 0

\* Mutant: the listener is attached before the feasibility check.
ThrowInfeasibleAfterAttach(planned) ==
    /\ job' = [planned EXCEPT !.pc = "rejected", !.error = "Infeasible"]
    /\ listeners' = Stale(listeners) \cup {Listener("compressVideo", 0)}
    /\ calls' = <<>>

\* if (targetVideoBitrate <= 0) (line 115)
Infeasible(targetVideoBitrate) == targetVideoBitrate <= 0

\* Lines 115-117: the throw comes before the listener is attached and before
\* any engine call.
ThrowInfeasible(planned) ==
    /\ job' = [planned EXCEPT !.pc = "rejected", !.error = "Infeasible"]
    /\ listeners' = Stale(listeners)
    /\ calls' = <<>>

\* Lines 94-122: the guard, the bitrate budget, and the write of the input.
compressVideo(duration, targetSizeMB, removeAudio, startTime, endTime) ==
    LET effectiveDuration == EffectiveDuration(duration, startTime, endTime)
        targetVideoBitrate ==
            TargetVideoBitrate(targetSizeMB, effectiveDuration, removeAudio)
        call == [NoJob EXCEPT !.fn = "compressVideo", !.duration = duration,
                              !.targetSizeMB = targetSizeMB,
                              !.removeAudio = removeAudio,
                              !.startTime = startTime, !.endTime = endTime]
        planned == [call EXCEPT !.effectiveDuration = effectiveDuration,
                                !.targetVideoBitrate = targetVideoBitrate]
    IN  /\ delivered' = <<>>
        /\ emitted' = 0
        /\ UNCHANGED <<loadVars, appVars, variant, ffmpeg, files>>
        /\ IF ffmpeg # "loaded"
           THEN /\ job' = [call EXCEPT !.pc = "rejected", !.error = "NotLoaded"]
                /\ listeners' = Stale(listeners)
                /\ calls' = <<>>
           ELSE IF Infeasible(targetVideoBitrate)
           THEN ThrowInfeasible(planned)
           ELSE /\ job' = [planned EXCEPT !.pc = "writeFile"]
                /\ listeners' = Stale(listeners)
                /\ calls' = <<FileCall("writeFile", InputFileName)>>

CompressVideoCall ==
    /\ variant = "service"
    /\ job.pc = "idle"
    /\ \E duration \in Durations, targetSizeMB \in TargetSizes,
          removeAudio \in BOOLEAN, startTime \in TimeStrings, endTime \in TimeStrings :
            compressVideo(duration, targetSizeMB, removeAudio, startTime, endTime)

\* Lines 122-155: the write resolved; build the command, attach the listener, exec.
CompressVideoWritten ==
    /\ variant = "service" /\ job.fn = "compressVideo" /\ job.pc = "writeFile"
    /\ files' = files \cup {InputFileName}
    /\ listeners' = listeners \cup {Listener("compressVideo", 0)}
    /\ calls' = Append(calls, ExecCall(CompressCommand(job.startTime, job.endTime,
                                           job.targetVideoBitrate, job.removeAudio)))
    /\ job' = [job EXCEPT !.pc = "exec", !.wrote = @ \cup {InputFileName}]
    /\ emitted' = 0
    /\ UNCHANGED <<loadVars, appVars, variant, ffmpeg, delivered>>

\* Line 122 throws: nothing was attached, the call rejects.
CompressVideoWriteThrows ==
    /\ variant = "service" /\ job.fn = "compressVideo" /\ job.pc = "writeFile"
    /\ job' = Reject("writeFile")
    /\ UNCHANGED <<loadVars, appVars, variant, ffmpeg, files, listeners, calls, delivered, emitted>>

\* Mutant: no try/finally around exec; a throwing exec rejects at once.
CompressVideoExecSettlesNoFinally ==
    /\ variant = "service" /\ job.fn = "compressVideo" /\ job.pc = "exec"
    /\ \E ok \in BOOLEAN :
        IF ok
        THEN /\ files' = files \cup {OutputFileName}
             /\ job' = [job EXCEPT !.pc = "delInput"]
             /\ listeners' = listeners \ {Listener("compressVideo", 0)}
             /\ calls' = Append(calls, FileCall("deleteFile", InputFileName))
        ELSE /\ job' = Reject("exec")
             /\ UNCHANGED <<files, listeners, calls>>
    /\ UNCHANGED <<loadVars, appVars, variant, ffmpeg, delivered, emitted>>

\* Mutant: the listener is detached after the try statement, not in its finally.
CompressVideoExecSettlesOffAfterTry ==
    /\ variant = "service" /\ job.fn = "compressVideo" /\ job.pc = "exec"
    /\ \E ok \in BOOLEAN :
        /\ files' = IF ok THEN files \cup {OutputFileName} ELSE files
        /\ job' = [job EXCEPT !.pc = "delInput", !.thrown = IF ok THEN "" ELSE "exec"]
        /\ listeners' = IF ok THEN listeners \ {Listener("compressVideo", 0)}
                        ELSE listeners
    /\ calls' = Append(calls, FileCall("deleteFile", InputFileName))
    /\ UNCHANGED <<loadVars, appVars, variant, ffmpeg, delivered, emitted>>

\* Lines 154-159: exec settled (ok or thrown); the finally block detaches the
\* listener and calls deleteFile on the input.
CompressVideoExecSettles ==
    /\ variant = "service" /\ job.fn = "compressVideo" /\ job.pc = "exec"
    /\ \E ok \in BOOLEAN :
        /\ files' = IF ok THEN files \cup {OutputFileName} ELSE files
        /\ job' = [job EXCEPT !.pc = "delInput", !.thrown = IF ok THEN "" ELSE "exec"]
    /\ listeners' = listeners \ {Listener("compressVideo", 0)}
    /\ calls' = Append(calls, FileCall("deleteFile", InputFileName))
    /\ UNCHANGED <<loadVars, appVars, variant, ffmpeg, delivered, emitted>>

\* Lines 158-161: the finally's deleteFile settled.  If it throws, its error is
\* the one the call rejects with; else a pending exec error is rethrown; else
\* the output is read.
CompressVideoInputDeleted ==
    /\ variant = "service" /\ job.fn = "compressVideo" /\ job.pc = "delInput"
    /\ \E ok \in BOOLEAN :
        IF ~ok
        THEN /\ job' = Reject("deleteFile")
             /\ UNCHANGED <<files, calls>>
        ELSE /\ files' = files \ {InputFileName}
             /\ IF job.thrown # ""
                THEN /\ job' = Reject(job.thrown)
                     /\ UNCHANGED calls
                ELSE /\ job' = [job EXCEPT !.pc = "readFile"]
                     /\ calls' = Append(calls, FileCall("readFile", OutputFileName))
    /\ UNCHANGED <<loadVars, appVars, variant, ffmpeg, listeners, delivered, emitted>>

\* Lines 161-162: readFile settled; on success deleteFile(output) is called.
CompressVideoRead ==
    /\ variant = "service" /\ job.fn = "compressVideo" /\ job.pc = "readFile"
    /\ \E ok \in BOOLEAN :
        IF ok
        THEN /\ job' = [job EXCEPT !.pc = "delOutput"]
             /\ calls' = Append(calls, FileCall("deleteFile", OutputFileName))
        ELSE /\ job' = Reject("readFile")
             /\ UNCHANGED calls
    /\ UNCHANGED <<loadVars, appVars, variant, ffmpeg, files, listeners, delivered, emitted>>

\* Lines 162-164: deleteFile(output) settled; the call resolves with the blob.
CompressVideoOutputDeleted ==
    /\ variant = "service" /\ job.fn = "compressVideo" /\ job.pc = "delOutput"
    /\ \E ok \in BOOLEAN :
        IF ok
        THEN /\ job' = [job EXCEPT !.pc = "resolved"]
             /\ files' = files \ {OutputFileName}
        ELSE /\ job' = Reject("deleteFile")
             /\ UNCHANGED files
    /\ UNCHANGED <<loadVars, appVars, variant, ffmpeg, listeners, calls, delivered, emitted>>

---------------------------------------------------------------------------
(* convertToGif, src/services/ffmpegService.ts *)

PaletteCommand(startTime, endTime) ==
    [NoCommand EXCEPT !.ss = startTime, !.to = endTime, !.out = PaletteFileName]

GifCommand(startTime, endTime) ==
    [NoCommand EXCEPT !.ss = startTime, !.to = endTime, !.out = GifFileName]

\* Lines 177-186: the guard and the write of the input.
convertToGif(startTime, endTime) ==
    LET call == [NoJob EXCEPT !.fn = "convertToGif",
                              !.startTime = startTime, !.endTime = endTime]
    IN  /\ listeners' = Stale(listeners)
        /\ delivered' = <<>>
        /\ emitted' = 0
        /\ UNCHANGED <<loadVars, appVars, variant, ffmpeg, files>>
        /\ IF ffmpeg # "loaded"
           THEN /\ job' = [call EXCEPT !.pc = "rejected", !.error = "NotLoaded"]
                /\ calls' = <<>>
           ELSE /\ job' = [call EXCEPT !.pc = "writeFile"]
                /\ calls' = <<FileCall("writeFile", InputFileName)>>

ConvertToGifCall ==
    /\ variant = "service"
    /\ job.pc = "idle"
    /\ \E startTime \in TimeStrings, endTime \in TimeStrings :
            convertToGif(startTime, endTime)

\* Lines 186-199: the write resolved; report 0 and run the palette command.
ConvertToGifWritten ==
    /\ variant = "service" /\ job.fn = "convertToGif" /\ job.pc = "writeFile"
    /\ files' = files \cup {InputFileName}
    /\ delivered' = Append(delivered, 0)
    /\ calls' = Append(calls, ExecCall(PaletteCommand(job.startTime, job.endTime)))
    /\ job' = [job EXCEPT !.pc = "paletteExec", !.wrote = @ \cup {InputFileName}]
    /\ emitted' = 0
    /\ UNCHANGED <<loadVars, appVars, variant, ffmpeg, listeners>>

ConvertToGifWriteThrows ==
    /\ variant = "service" /\ job.fn = "convertToGif" /\ job.pc = "writeFile"
    /\ job' = Reject("writeFile")
    /\ UNCHANGED <<loadVars, appVars, variant, ffmpeg, files, listeners, calls, delivered, emitted>>

\* Lines 199-220: the palette command settled.  It is awaited outside any try:
\* if it throws the call rejects there.  Else report 50, attach the listener and
\* run the gif command.
ConvertToGifPaletteSettles ==
    /\ variant = "service" /\ job.fn = "convertToGif" /\ job.pc = "paletteExec"
    /\ \E ok \in BOOLEAN :
        IF ok
        THEN /\ files' = files \cup {PaletteFileName}
             /\ delivered' = Append(delivered, 50)
             /\ listeners' = listeners \cup {Listener("convertToGif", 0)}
             /\ calls' = Append(calls, ExecCall(GifCommand(job.startTime, job.endTime)))
             /\ job' = [job EXCEPT !.pc = "gifExec"]
             /\ emitted' = 0
        ELSE /\ job' = Reject("exec")
             /\ UNCHANGED <<files, delivered, listeners, calls, emitted>>
    /\ UNCHANGED <<loadVars, appVars, variant, ffmpeg>>

\* Lines 219-223: the gif command settled; the finally block detaches the
\* listener and calls deleteFile on the input.
ConvertToGifExecSettles ==
    /\ variant = "service" /\ job.fn = "convertToGif" /\ job.pc = "gifExec"
    /\ \E ok \in BOOLEAN :
        /\ files' = IF ok THEN files \cup {GifFileName} ELSE files
        /\ job' = [job EXCEPT !.pc = "delInput", !.thrown = IF ok THEN "" ELSE "exec"]
    /\ listeners' = listeners \ {Listener("convertToGif", 0)}
    /\ calls' = Append(calls, FileCall("deleteFile", InputFileName))
    /\ UNCHANGED <<loadVars, appVars, variant, ffmpeg, delivered, emitted>>

\* Lines 223-224: deleteFile(input) settled; if it throws the finally block ends
\* there, else deleteFile(palette) is called.
ConvertToGifInputDeleted ==
    /\ variant = "service" /\ job.fn = "convertToGif" /\ job.pc = "delInput"
    /\ \E ok \in BOOLEAN :
        IF ok
        THEN /\ files' = files \ {InputFileName}
             /\ job' = [job EXCEPT !.pc = "delPalette"]
             /\ calls' = Append(calls, FileCall("deleteFile", PaletteFileName))
        ELSE /\ job' = Reject("deleteFile")
             /\ UNCHANGED <<files, calls>>
    /\ UNCHANGED <<loadVars, appVars, variant, ffmpeg, listeners, delivered, emitted>>

\* Lines 224-227: deleteFile(palette) settled; a pending exec error is rethrown,
\* else the output is read.
ConvertToGifPaletteDeleted ==
    /\ variant = "service" /\ job.fn = "convertToGif" /\ job.pc = "delPalette"
    /\ \E ok \in BOOLEAN :
        IF ~ok
        THEN /\ job' = Reject("deleteFile")
             /\ UNCHANGED <<files, calls>>
        ELSE /\ files' = files \ {PaletteFileName}
             /\ IF job.thrown # ""
                THEN /\ job' = Reject(job.thrown)
                     /\ UNCHANGED calls
                ELSE /\ job' = [job EXCEPT !.pc = "readFile"]
                     /\ calls' = Append(calls, FileCall("readFile", GifFileName))
    /\ UNCHANGED <<loadVars, appVars, variant, ffmpeg, listeners, delivered, emitted>>

\* Lines 227-228: readFile settled; on success deleteFile(output) is called.
ConvertToGifRead ==
    /\ variant = "service" /\ job.fn = "convertToGif" /\ job.pc = "readFile"
    /\ \E ok \in BOOLEAN :
        IF ok
        THEN /\ job' = [job EXCEPT !.pc = "delOutput"]
             /\ calls' = Append(calls, FileCall("deleteFile", GifFileName))
        ELSE /\ job' = Reject("readFile")
             /\ UNCHANGED calls
    /\ UNCHANGED <<loadVars, appVars, variant, ffmpeg, files, listeners, delivered, emitted>>

\* Lines 228-230: deleteFile(output) settled; the call resolves with the blob.
ConvertToGifOutputDeleted ==
    /\ variant = "service" /\ job.fn = "convertToGif" /\ job.pc = "delOutput"
    /\ \E ok \in BOOLEAN :
        IF ok
        THEN /\ job' = [job EXCEPT !.pc = "resolved"]
             /\ files' = files \ {GifFileName}
        ELSE /\ job' = Reject("deleteFile")
             /\ UNCHANGED files
    /\ UNCHANGED <<loadVars, appVars, variant, ffmpeg, listeners, calls, delivered, emitted>>

---------------------------------------------------------------------------
(* loadFfmpeg and compressVideo, src/unnamed/part_001 *)

\* Lines 13-26: if (ffmpeg) return; ffmpeg = new FFmpeg(); await ffmpeg.load(..)
loadFfmpegPart001 ==
    /\ variant = "part001"
    /\ job.pc = "idle"
    /\ \/ /\ ffmpeg # "null"
          /\ UNCHANGED vars
       \/ /\ ffmpeg = "null"
          /\ \E ok \in BOOLEAN : ffmpeg' = IF ok THEN "loaded" ELSE "created"
          /\ UNCHANGED <<loadVars, appVars, variant, files, listeners, job, calls, delivered, emitted>>

\* Math.round(totalBitrate - audioBitrate), the N of '-b:v Nk' (line 142)
RoundedVideoBitrate(targetSizeMB, duration, removeAudio) ==
    Round(targetSizeMB * 1024 * 8 - AudioBitrate(removeAudio) * duration, duration)

\* videoBitrate <= 0 (line 114), on the unrounded difference
VideoBitrateNotPositive(targetSizeMB, duration, removeAudio) ==
    targetSizeMB * 1024 * 8 - AudioBitrate(removeAudio) * duration <= 0

\* The args of lines 128-154: no -maxrate, no -bufsize.
CompressArgsPart001(startTime, endTime, videoBitrate, removeAudio) ==
    [NoCommand EXCEPT !.ss = startTime, !.to = endTime, !.bv = videoBitrate,
                      !.an = removeAudio, !.out = OutputFileName]

\* Lines 107-120, once the handle is set: the budget from the full duration,
\* the feasibility check, and the write of the input.
PlanPart001(call) ==
    IF VideoBitrateNotPositive(call.targetSizeMB, call.duration, call.removeAudio)
    THEN /\ job' = [call EXCEPT !.pc = "rejected", !.error = "Infeasible"]
         /\ calls' = <<>>
    ELSE /\ job' = [call EXCEPT !.pc = "writeFile",
                      !.effectiveDuration = call.duration,
                      !.targetVideoBitrate =
                          RoundedVideoBitrate(call.targetSizeMB, call.duration,
                                              call.removeAudio)]
         /\ calls' = <<FileCall("writeFile", InputFileName)>>

\* Lines 102-120: if (!ffmpeg) await loadFfmpeg(); then the plan.
compressVideoPart001(duration, targetSizeMB, removeAudio, startTime, endTime) ==
    LET call == [NoJob EXCEPT !.fn = "compressVideo", !.duration = duration,
                              !.targetSizeMB = targetSizeMB,
                              !.removeAudio = removeAudio,
                              !.startTime = startTime, !.endTime = endTime]
    IN  /\ listeners' = Stale(listeners)
        /\ delivered' = <<>>
        /\ emitted' = 0
        /\ UNCHANGED <<loadVars, appVars, variant, files>>
        /\ IF ffmpeg = "null"
           THEN /\ ffmpeg' = "created"
                /\ job' = [call EXCEPT !.pc = "load"]
                /\ calls' = <<>>
           ELSE /\ UNCHANGED ffmpeg
                /\ PlanPart001(call)

CompressVideoPart001Call ==
    /\ variant = "part001"
    /\ job.pc = "idle"
    /\ \E duration \in Durations, targetSizeMB \in TargetSizes,
          removeAudio \in BOOLEAN, startTime \in TimeStrings, endTime \in TimeStrings :
            compressVideoPart001(duration, targetSizeMB, removeAudio, startTime, endTime)

\* Lines 22-25 and 103-120: the load the call awaited settled.
CompressVideoPart001Loaded ==
    /\ variant = "part001" /\ job.fn = "compressVideo" /\ job.pc = "load"
    /\ \E ok \in BOOLEAN :
        IF ok
        THEN /\ ffmpeg' = "loaded"
             /\ PlanPart001(job)
        ELSE /\ job' = Reject("load")
             /\ UNCHANGED <<ffmpeg, calls>>
    /\ UNCHANGED <<loadVars, appVars, variant, files, listeners, delivered, emitted>>

\* Lines 120-156: the write resolved (the instance is loaded); attach the
\* listener, build the args, exec.
CompressVideoPart001Written ==
    /\ variant = "part001" /\ job.fn = "compressVideo" /\ job.pc = "writeFile"
    /\ ffmpeg = "loaded"
    /\ files' = files \cup {InputFileName}
    /\ listeners' = listeners \cup {Listener("compressVideo", 0)}
    /\ calls' = Append(calls, ExecCall(CompressArgsPart001(job.startTime, job.endTime,
                                           job.targetVideoBitrate, job.removeAudio)))
    /\ job' = [job EXCEPT !.pc = "exec", !.wrote = @ \cup {InputFileName}]
    /\ emitted' = 0
    /\ UNCHANGED <<loadVars, appVars, variant, ffmpeg, delivered>>

\* Line 120 throws (it always does on an instance that never loaded).
CompressVideoPart001WriteThrows ==
    /\ variant = "part001" /\ job.fn = "compressVideo" /\ job.pc = "writeFile"
    /\ job' = Reject("writeFile")
    /\ UNCHANGED <<loadVars, appVars, variant, ffmpeg, files, listeners, calls, delivered, emitted>>

\* Lines 156-160: exec settled.  No try: if it throws the call rejects with the
\* listener attached and the input in place.  Else detach and read the output.
CompressVideoPart001ExecSettles ==
    /\ variant = "part001" /\ job.fn = "compressVideo" /\ job.pc = "exec"
    /\ \E ok \in BOOLEAN :
        IF ok
        THEN /\ files' = files \cup {OutputFileName}
             /\ listeners' = listeners \ {Listener("compressVideo", 0)}
             /\ calls' = Append(calls, FileCall("readFile", OutputFileName))
             /\ job' = [job EXCEPT !.pc = "readFile"]
        ELSE /\ job' = Reject("exec")
             /\ UNCHANGED <<files, listeners, calls>>
    /\ UNCHANGED <<loadVars, appVars, variant, ffmpeg, delivered, emitted>>

\* Lines 160-161: readFile settled; on success deleteFile(input) is called.
CompressVideoPart001Read ==
    /\ variant = "part001" /\ job.fn = "compressVideo" /\ job.pc = "readFile"
    /\ \E ok \in BOOLEAN :
        IF ok
        THEN /\ job' = [job EXCEPT !.pc = "delInput"]
             /\ calls' = Append(calls, FileCall("deleteFile", InputFileName))
        ELSE /\ job' = Reject("readFile")
             /\ UNCHANGED calls
    /\ UNCHANGED <<loadVars, appVars, variant, ffmpeg, files, listeners, delivered, emitted>>

\* Lines 161-162: deleteFile(input) settled; on success deleteFile(output) is called.
CompressVideoPart001InputDeleted ==
    /\ variant = "part001" /\ job.fn = "compressVideo" /\ job.pc = "delInput"
    /\ \E ok \in BOOLEAN :
        IF ok
        THEN /\ files' = files \ {InputFileName}
             /\ job' = [job EXCEPT !.pc = "delOutput"]
             /\ calls' = Append(calls, FileCall("deleteFile", OutputFileName))
        ELSE /\ job' = Reject("deleteFile")
             /\ UNCHANGED <<files, calls>>
    /\ UNCHANGED <<loadVars, appVars, variant, ffmpeg, listeners, delivered, emitted>>

\* Lines 162-164: deleteFile(output) settled; the call resolves with the blob.
CompressVideoPart001OutputDeleted ==
    /\ variant = "part001" /\ job.fn = "compressVideo" /\ job.pc = "delOutput"
    /\ \E ok \in BOOLEAN :
        IF ok
        THEN /\ job' = [job EXCEPT !.pc = "resolved"]
             /\ files' = files \ {OutputFileName}
        ELSE /\ job' = Reject("deleteFile")
             /\ UNCHANGED files
    /\ UNCHANGED <<loadVars, appVars, variant, ffmpeg, listeners, calls, delivered, emitted>>

---------------------------------------------------------------------------
(* compressVideo with time-based progress, src/App.tsx lines 766-807 *)

\* '-crf 23': no bitrate, no trim.
CrfCommand == [NoCommand EXCEPT !.out = OutputFileName]

\* Lines 771-789: the guard; the listener is attached before the input is written.
compressVideoTimeBased(duration) ==
    LET call == [NoJob EXCEPT !.fn = "compressVideo", !.duration = duration]
    IN  /\ delivered' = <<>>
        /\ emitted' = 0
        /\ UNCHANGED <<loadVars, appVars, variant, ffmpeg, files>>
        /\ IF ffmpeg # "loaded"
           THEN /\ job' = [call EXCEPT !.pc = "rejected", !.error = "NotLoaded"]
                /\ listeners' = Stale(listeners)
                /\ calls' = <<>>
           ELSE /\ job' = [call EXCEPT !.pc = "writeFile"]
                /\ listeners' = Stale(listeners) \cup {Listener("timeBased", duration)}
                /\ calls' = <<FileCall("writeFile", InputFileName)>>

CompressVideoTimeBasedCall ==
    /\ variant = "timeBased"
    /\ job.pc = "idle"
    /\ \E duration \in Durations : compressVideoTimeBased(duration)

\* Lines 789-802: the write settled; on success exec.
CompressVideoTimeBasedWritten ==
    /\ variant = "timeBased" /\ job.fn = "compressVideo" /\ job.pc = "writeFile"
    /\ \E ok \in BOOLEAN :
        IF ok
        THEN /\ files' = files \cup {InputFileName}
             /\ calls' = Append(calls, ExecCall(CrfCommand))
             /\ job' = [job EXCEPT !.pc = "exec", !.wrote = @ \cup {InputFileName}]
        ELSE /\ job' = Reject("writeFile")
             /\ UNCHANGED <<files, calls>>
    /\ emitted' = 0
    /\ UNCHANGED <<loadVars, appVars, variant, ffmpeg, listeners, delivered>>

\* Lines 802-804: exec settled; on success the output is read.
CompressVideoTimeBasedExecSettles ==
    /\ variant = "timeBased" /\ job.fn = "compressVideo" /\ job.pc = "exec"
    /\ \E ok \in BOOLEAN :
        IF ok
        THEN /\ files' = files \cup {OutputFileName}
             /\ calls' = Append(calls, FileCall("readFile", OutputFileName))
             /\ job' = [job EXCEPT !.pc = "readFile"]
        ELSE /\ job' = Reject("exec")
             /\ UNCHANGED <<files, calls>>
    /\ UNCHANGED <<loadVars, appVars, variant, ffmpeg, listeners, delivered, emitted>>

\* Lines 804-806: readFile settled; the call resolves with the blob.
CompressVideoTimeBasedRead ==
    /\ variant = "timeBased" /\ job.fn = "compressVideo" /\ job.pc = "readFile"
    /\ \E ok \in BOOLEAN :
        job' = IF ok THEN [job EXCEPT !.pc = "resolved"] ELSE Reject("readFile")
    /\ UNCHANGED <<loadVars, appVars, variant, ffmpeg, files, listeners, calls, delivered, emitted>>

---------------------------------------------------------------------------
(* The engine's progress events *)

(* getVideoMetadata, src/services/ffmpegService.ts and src/unnamed/part_001 *)

\* ['-i', inputFileName, '-hide_banner']: a probe, no output file.
ProbeCommand == NoCommand

\* Mutant: the scratch file is written before the guard is tested.
getVideoMetadataWriteBeforeGuard(now) ==
    LET call == [NoJob EXCEPT !.fn = "getVideoMetadata",
                              !.scratch = MetaFileName(now)]
    IN  /\ listeners' = Stale(listeners)
        /\ delivered' = <<>>
        /\ emitted' = 0
        /\ calls' = <<FileCall("writeFile", call.scratch)>>
        /\ IF ffmpeg # "loaded"
           THEN job' = [call EXCEPT !.pc = "rejected", !.error = "NotLoaded"]
           ELSE job' = [call EXCEPT !.pc = "writeFile"]
        /\ UNCHANGED <<loadVars, appVars, variant, ffmpeg, files>>

\* ffmpegService.ts lines 33-39: the guard, the scratch name, the write.
getVideoMetadata(now) ==
    LET call == [NoJob EXCEPT !.fn = "getVideoMetadata",
                              !.scratch = MetaFileName(now)]
    IN  /\ listeners' = Stale(listeners)
        /\ delivered' = <<>>
        /\ emitted' = 0
        /\ IF ffmpeg # "loaded"
           THEN /\ job' = [call EXCEPT !.pc = "rejected", !.error = "NotLoaded"]
                /\ calls' = <<>>
           ELSE /\ job' = [call EXCEPT !.pc = "writeFile"]
                /\ calls' = <<FileCall("writeFile", call.scratch)>>
        /\ UNCHANGED <<loadVars, appVars, variant, ffmpeg, files>>

GetVideoMetadataCall ==
    /\ variant = "service"
    /\ job.pc = "idle"
    /\ \E now \in Clock : getVideoMetadata(now)

\* part_001 lines 28-36: if (!ffmpeg) await loadFfmpeg(); then the write.
GetVideoMetadataPart001Call ==
    /\ variant = "part001"
    /\ job.pc = "idle"
    /\ listeners' = Stale(listeners)
    /\ delivered' = <<>>
    /\ emitted' = 0
    /\ IF ffmpeg = "null"
       THEN /\ ffmpeg' = "created"
            /\ job' = [NoJob EXCEPT !.fn = "getVideoMetadata", !.pc = "load"]
            /\ calls' = <<>>
       ELSE /\ job' = [NoJob EXCEPT !.fn = "getVideoMetadata", !.pc = "writeFile",
                                    !.scratch = "input.video"]
            /\ calls' = <<FileCall("writeFile", "input.video")>>
            /\ UNCHANGED ffmpeg
    /\ UNCHANGED <<loadVars, appVars, variant, files>>

\* part_001 lines 22-25 and 30-36: the load the call awaited settled.
GetVideoMetadataPart001Loaded ==
    /\ variant = "part001" /\ job.fn = "getVideoMetadata" /\ job.pc = "load"
    /\ \E ok \in BOOLEAN :
        IF ok
        THEN /\ ffmpeg' = "loaded"
             /\ job' = [job EXCEPT !.pc = "writeFile", !.scratch = "input.video"]
             /\ calls' = <<FileCall("writeFile", "input.video")>>
        ELSE /\ job' = Reject("load")
             /\ UNCHANGED <<ffmpeg, calls>>
    /\ UNCHANGED <<loadVars, appVars, variant, files, listeners, delivered, emitted>>

\* The write resolved (the instance is loaded): the log listener is attached and
\* the probe is executed (ffmpegService.ts 39-66, part_001 36-53).
GetVideoMetadataWritten ==
    /\ job.fn = "getVideoMetadata" /\ job.pc = "writeFile"
    /\ ffmpeg = "loaded"
    /\ files' = files \cup {job.scratch}
    /\ listeners' = listeners \cup {Listener("log", 0)}
    /\ calls' = Append(calls, ExecCall(ProbeCommand))
    /\ job' = [job EXCEPT !.pc = "probe", !.wrote = @ \cup {job.scratch}]
    /\ UNCHANGED <<loadVars, appVars, variant, ffmpeg, delivered, emitted>>

\* The write throws: the call rejects.
GetVideoMetadataWriteThrows ==
    /\ job.fn = "getVideoMetadata" /\ job.pc = "writeFile"
    /\ job' = Reject("writeFile")
    /\ UNCHANGED <<loadVars, appVars, variant, ffmpeg, files, listeners, calls, delivered, emitted>>

\* Mutant: no catch around the probe; a throwing exec rejects the call at once.
GetVideoMetadataProbedNoCatch ==
    /\ job.fn = "getVideoMetadata" /\ job.pc = "probe"
    /\ \E ok \in BOOLEAN, line \in DurationLines, streamWidth \in StreamWidths :
        IF ok
        THEN /\ job' = [job EXCEPT
                          !.pc = "delInput",
                          !.log = [duration |-> line, width |-> streamWidth],
                          !.info = IF variant = "part001"
                                   THEN [duration |-> ParseDurationPart001(line),
                                         width |-> ParseWidthPart001(streamWidth)]
                                   ELSE [duration |-> ParseDuration(line),
                                         width |-> ParseWidth(streamWidth)]]
             /\ listeners' = listeners \ {Listener("log", 0)}
             /\ calls' = Append(calls, FileCall("deleteFile", job.scratch))
        ELSE /\ job' = [job EXCEPT !.pc = "rejected", !.thrown = "exec",
                                   !.error = "exec"]
             /\ UNCHANGED <<listeners, calls>>
    /\ UNCHANGED <<loadVars, appVars, variant, ffmpeg, files, delivered, emitted>>

\* The probe settled, having logged a Duration line and a stream line or not.
\* Whether it threw is swallowed by the empty catch (ffmpegService.ts 67-69,
\* part_001 54-56); the log is parsed, the listener detached and deleteFile
\* called (ffmpegService.ts 46-71, part_001 58-78).
GetVideoMetadataProbed ==
    /\ job.fn = "getVideoMetadata" /\ job.pc = "probe"
    /\ \E ok \in BOOLEAN, line \in DurationLines, streamWidth \in StreamWidths :
        job' = [job EXCEPT
                  !.pc = "delInput",
                  !.thrown = IF ok THEN "" ELSE "exec",
                  !.log = [duration |-> line, width |-> streamWidth],
                  !.info = IF variant = "part001"
                           THEN [duration |-> ParseDurationPart001(line),
                                 width |-> ParseWidthPart001(streamWidth)]
                           ELSE [duration |-> ParseDuration(line),
                                 width |-> ParseWidth(streamWidth)]]
    /\ listeners' = listeners \ {Listener("log", 0)}
    /\ calls' = Append(calls, FileCall("deleteFile", job.scratch))
    /\ UNCHANGED <<loadVars, appVars, variant, ffmpeg, files, delivered, emitted>>

\* The check after the probe: 'duration === 0' in ffmpegService.ts (line 74),
\* 'duration === 0 || width === 0' in part_001 (line 80).
NoMetadata(info) ==
    IF variant = "part001" THEN info.duration = 0 \/ info.width = 0
    ELSE info.duration = 0

\* deleteFile settled: if it throws the call rejects with its error; else the
\* check, and the call resolves with { duration, width, height, fps }
\* (ffmpegService.ts 71-78, part_001 78-85).
GetVideoMetadataDeleted ==
    /\ job.fn = "getVideoMetadata" /\ job.pc = "delInput"
    /\ \E ok \in BOOLEAN :
        IF ~ok
        THEN /\ job' = Reject("deleteFile")
             /\ UNCHANGED files
        ELSE /\ files' = files \ {job.scratch}
             /\ job' = IF NoMetadata(job.info) THEN Reject("NoMetadata")
                       ELSE [job EXCEPT !.pc = "resolved"]
    /\ UNCHANGED <<loadVars, appVars, variant, ffmpeg, listeners, calls, delivered, emitted>>

---------------------------------------------------------------------------
(* The engine's progress events *)

\* What a listener passes to its onProgress for an event; <<>> when it passes
\* nothing (the time-based listener with duration 0).
Percentage(l, event) ==
    CASE l.kind = "compressVideo" -> <<CompressPercentage(event.progress)>>
      [] l.kind = "convertToGif" -> <<GifPercentage(event.progress)>>
      [] l.kind = "timeBased" ->
            IF l.duration > 0 THEN <<TimePercentage(event.time, l.duration)>>
            ELSE <<>>

\* The engine emits one progress event during an exec: every attached listener
\* runs.  The current call's listener delivers to the call's onProgress.
EngineProgress ==
    /\ Executing
    /\ emitted < MaxEvents
    /\ \E event \in ProgressEvents :
        delivered' = IF \E l \in listeners : l.owner = "current"
                     THEN delivered \o
                          Percentage(CHOOSE l \in listeners : l.owner = "current", event)
                     ELSE delivered
    /\ emitted' = emitted + 1
    /\ UNCHANGED <<loadVars, appVars, variant, ffmpeg, files, listeners, job, calls>>

---------------------------------------------------------------------------
(* The caller *)

\* The caller's continuation takes the settled promise's outcome (the blob or
\* the error): the call is over, the engine and its scratch files stay as they are.
CallerResumes ==
    /\ Settled
    /\ job' = NoJob
    /\ calls' = <<>>
    /\ delivered' = <<>>
    /\ emitted' = 0
    /\ UNCHANGED <<loadVars, appVars, variant, ffmpeg, files, listeners>>

---------------------------------------------------------------------------
(* loadFfmpeg call by call: callers overlap, and the instances are told apart *)

\* ffmpeg && ffmpeg.loaded, of the module-level handle
HandleLoaded == handle # 0 /\ handle \in loadedEngines

\* The early return of loadFfmpeg: 'if (ffmpeg && ffmpeg.loaded) return' in
\* ffmpegService.ts (line 10), 'if (ffmpeg) return' in part_001 (line 14).
LoadReturnsEarly == IF variant = "part001" THEN handle # 0 ELSE HandleLoaded

\* A caller calls loadFfmpeg: it runs to the early return, or constructs an
\* instance, stores it in the module-level variable, and suspends on the load
\* of that instance.
LoadFfmpegCall(c) ==
    /\ loaders[c].pc = "idle"
    /\ IF LoadReturnsEarly
       THEN /\ loaders' = [loaders EXCEPT ![c] = [pc |-> "resolved", inst |-> 0,
                                                  handleLoaded |-> HandleLoaded]]
            /\ UNCHANGED <<created, handle>>
       ELSE /\ created < MaxInstances
            /\ created' = created + 1
            /\ handle' = created + 1
            /\ loaders' = [loaders EXCEPT ![c] = [pc |-> "loading", inst |-> created + 1,
                                                  handleLoaded |-> FALSE]]
    /\ UNCHANGED <<variant, serviceVars, loadedEngines, appVars>>

\* await ffmpeg.load(..) settles for the instance the caller constructed: the
\* instance is loaded and the call resolves, or the load throws and the call
\* rejects with the instance left in the module-level variable.
LoadFfmpegSettles(c) ==
    /\ loaders[c].pc = "loading"
    /\ \E ok \in BOOLEAN :
        IF ok
        THEN /\ loadedEngines' = loadedEngines \cup {loaders[c].inst}
             /\ loaders' = [loaders EXCEPT ![c].pc = "resolved",
                                ![c].handleLoaded =
                                    (handle \in loadedEngines \cup {loaders[c].inst})]
        ELSE /\ loaders' = [loaders EXCEPT ![c].pc = "rejected"]
             /\ UNCHANGED loadedEngines
    /\ UNCHANGED <<variant, serviceVars, created, handle, appVars>>

\* The caller takes the outcome of its call; it may call again.
LoadCallerResumes(c) ==
    /\ loaders[c].pc \in {"resolved", "rejected"}
    /\ loaders' = [loaders EXCEPT ![c] = NoLoad]
    /\ UNCHANGED <<variant, serviceVars, created, handle, loadedEngines, appVars>>

InitLoad ==
    /\ variant \in {"service", "part001"}
    /\ ServiceIdle
    /\ LoadIdle
    /\ AppIdle

NextLoad ==
    \/ \E c \in Callers : LoadFfmpegCall(c)
    \/ \E c \in Callers : LoadFfmpegSettles(c)
    \/ \E c \in Callers : LoadCallerResumes(c)

SpecLoad == InitLoad /\ [][NextLoad]_vars

---------------------------------------------------------------------------
(* The App components.  A handler runs to its first await; its continuation   *)
(* runs when the service call it awaits settles.  A service call in flight is *)
(* at the engine call it is suspended on.                                     *)

\* The service module an App imports: compressVideo(file, onProgress) of
\* App.tsx 694-740 for the two Apps of App.tsx, part_001 for part_000.
ServiceOf(a) == IF a = "part000" THEN "part001" ELSE "crf"

\* The engine calls getVideoMetadata of part_001 awaits, in order (lines 36, 53, 78).
ProbeStages == <<"writeFile", "exec", "deleteFile">>

\* The engine calls compressVideo awaits, in order: App.tsx 717, 731, 737;
\* part_001 120, 156, 159, 161, 162.
CompressStages ==
    IF variant = "part001"
    THEN <<"writeFile", "exec", "readFile", "deleteInput", "deleteOutput">>
    ELSE <<"writeFile", "exec", "readFile">>

\* The stage after a stage of a call; "done" after the last.
StageAfter(stages, stage) ==
    LET i == CHOOSE j \in DOMAIN stages : stages[j] = stage
    IN  IF i = Len(stages) THEN "done" ELSE stages[i + 1]

\* An engine call can resolve only on a loaded instance.
Outcomes == IF ffmpeg = "loaded" THEN BOOLEAN ELSE {FALSE}

\* useEffect(() => { initFfmpeg() }, []): the mount.  setAppState(LOADING_FFMPEG);
\* await loadFfmpeg(), which constructs the instance and suspends on its load.
InitFfmpeg ==
    /\ app \in Apps
    /\ appState = "IDLE"
    /\ appState' = "LOADING_FFMPEG"
    /\ ffmpeg' = "created"
    /\ UNCHANGED <<variant, engineVars, loadVars, app, videoFile, metadata, error,
                   output, selects, compresses, outcome, failed>>

\* The load settled.  Resolved: READY, in the first App after a 500 ms timer
\* (App.tsx 135-141, 318-319; part_000 35-36).  Thrown: setError(..), ERROR
\* (App.tsx 143-148, 320-324; part_000 37-41).
InitFfmpegSettles ==
    /\ app \in Apps
    /\ appState = "LOADING_FFMPEG" /\ ffmpeg = "created"
    /\ \E ok \in BOOLEAN :
        IF ok
        THEN /\ ffmpeg' = "loaded"
             /\ appState' = IF app = "App1" THEN "LOADING_FFMPEG" ELSE "READY"
             /\ UNCHANGED error
        ELSE /\ error' = "loadFailed"
             /\ appState' = "ERROR"
             /\ UNCHANGED ffmpeg
    /\ UNCHANGED <<variant, engineVars, loadVars, app, videoFile, metadata,
                   output, selects, compresses, outcome, failed>>

\* setTimeout(() => { setAppState(AppState.READY) }, 500) of the first App fires.
ReadyTimer ==
    /\ app = "App1"
    /\ appState = "LOADING_FFMPEG" /\ ffmpeg = "loaded"
    /\ appState' = "READY"
    /\ UNCHANGED <<variant, serviceVars, loadVars, app, videoFile, metadata, error,
                   output, selects, compresses, outcome, failed>>

\* First App, handleFileSelect (App.tsx 160-170); the input is rendered in READY
\* while no file is selected (lines 228-240).
HandleFileSelectApp1 ==
    /\ app = "App1"
    /\ appState = "READY" /\ videoFile = 0
    /\ \E file \in Files \cup {0} :
        /\ videoFile' = file
        /\ error' = IF file # 0 THEN "" ELSE "invalidFile"
    /\ outcome' = "none"
    /\ UNCHANGED <<variant, serviceVars, loadVars, app, appState, metadata, output,
                   selects, compresses, failed>>

\* First App, handleCompress up to 'await compressVideo(..)' (App.tsx 172-189);
\* the button is rendered in READY with a file selected.  compressVideo throws
\* at its guard when the engine is not loaded (App.tsx 698-700).
HandleCompressApp1 ==
    /\ app = "App1"
    /\ appState = "READY" /\ videoFile # 0
    /\ compresses[videoFile] = "none"
    /\ appState' = "PROCESSING"
    /\ compresses' = [compresses EXCEPT ![videoFile] =
                        IF ffmpeg = "loaded" THEN "writeFile" ELSE "throws"]
    /\ outcome' = "none"
    /\ UNCHANGED <<variant, serviceVars, loadVars, app, videoFile, metadata, error,
                   output, selects, failed>>

\* First App, resetState (App.tsx 203-211), the onReset of the result view:
\* error is not among the states it resets.
ResetStateApp1 ==
    /\ app = "App1"
    /\ appState = "DONE"
    /\ videoFile' = 0
    /\ output' = 0
    /\ appState' = "READY"
    /\ failed' = FALSE
    /\ outcome' = "none"
    /\ UNCHANGED <<variant, serviceVars, loadVars, app, metadata, error, selects,
                   compresses>>

\* Second App, handleFileChange (App.tsx 329-338); the input is rendered in READY.
HandleFileChangeApp2 ==
    /\ app = "App2"
    /\ appState = "READY"
    /\ \E file \in Files \cup {0} :
        IF file # 0
        THEN /\ videoFile' = file
             /\ output' = 0
             /\ error' = ""
        ELSE UNCHANGED <<videoFile, output, error>>
    /\ outcome' = "none"
    /\ UNCHANGED <<variant, serviceVars, loadVars, app, appState, metadata, selects,
                   compresses, failed>>

\* Second App, handleCompress up to 'await compressVideo(..)' (App.tsx 340-352);
\* the button is rendered in READY with a file selected.
HandleCompressApp2 ==
    /\ app = "App2"
    /\ appState = "READY" /\ videoFile # 0
    /\ compresses[videoFile] = "none"
    /\ appState' = "PROCESSING"
    /\ error' = ""
    /\ compresses' = [compresses EXCEPT ![videoFile] =
                        IF ffmpeg = "loaded" THEN "writeFile" ELSE "throws"]
    /\ outcome' = "none"
    /\ UNCHANGED <<variant, serviceVars, loadVars, app, videoFile, metadata, output,
                   selects, failed>>

\* handleReset of the second App (App.tsx 382-392) and of part_000 (lines 155-164).
Reset ==
    /\ videoFile' = 0
    /\ output' = 0
    /\ error' = ""
    /\ metadata' = 0
    /\ appState' = "READY"
    /\ failed' = FALSE

\* Second App: 'Compress Another' of DONE and 'Try Again' of ERROR.
HandleResetApp2 ==
    /\ app = "App2"
    /\ appState \in {"DONE", "ERROR"}
    /\ Reset
    /\ outcome' = "none"
    /\ UNCHANGED <<variant, serviceVars, loadVars, app, selects, compresses>>

\* part_000, handleFileSelect up to 'await generateThumbnail(file)' (lines
\* 75-85); the input and the drop zone are rendered in READY while no file is
\* selected (lines 166-182, 296).
HandleFileSelectPart000 ==
    /\ app = "part000"
    /\ appState = "READY" /\ videoFile = 0
    /\ \E file \in Files \cup {0} :
        IF file = 0
        THEN /\ error' = "invalidFile"
             /\ UNCHANGED <<videoFile, output, selects>>
        ELSE /\ selects[file] = "none"
             /\ error' = ""
             /\ videoFile' = file
             /\ output' = 0
             /\ selects' = [selects EXCEPT ![file] = "thumbnail"]
    /\ outcome' = "none"
    /\ UNCHANGED <<variant, serviceVars, loadVars, app, appState, metadata,
                   compresses, failed>>

\* part_000 lines 85-87: the thumbnail resolved; getVideoMetadata(file) is
\* called and suspends on its writeFile (part_001 28-36; the handle is set
\* since the mount).
ThumbnailGenerated(f) ==
    /\ app = "part000"
    /\ selects[f] = "thumbnail"
    /\ selects' = [selects EXCEPT ![f] = "writeFile"]
    /\ UNCHANGED <<variant, serviceVars, loadVars, app, appState, videoFile, metadata,
                   error, output, compresses, outcome, failed>>

\* part_000 lines 91-95, the catch of handleFileSelect: setError(..) and then
\* handleReset(), whose setError(null) is the later update of the same batch.
MetadataFailed(f) ==
    /\ Reset
    /\ selects' = [selects EXCEPT ![f] = "none"]
    /\ outcome' = "probeRejected"

\* An engine call of getVideoMetadata settled (part_001 36-85).  A throwing
\* exec is swallowed.  After deleteFile the parsed duration and width are
\* checked: the call resolves and handleFileSelect stores the metadata
\* (part_000 87-90), or it rejects.
ProbeSettles(f) ==
    /\ app = "part000"
    /\ selects[f] \in {"writeFile", "exec", "deleteFile"}
    /\ \E ok \in Outcomes, parsed \in BOOLEAN :
        IF ok \/ selects[f] = "exec"
        THEN IF StageAfter(ProbeStages, selects[f]) # "done"
             THEN /\ selects' = [selects EXCEPT ![f] = StageAfter(ProbeStages, @)]
                  /\ UNCHANGED <<appState, videoFile, metadata, error, output,
                                 outcome, failed>>
             ELSE IF parsed
             THEN /\ metadata' = f
                  /\ selects' = [selects EXCEPT ![f] = "none"]
                  /\ outcome' = "probeResolved"
                  /\ UNCHANGED <<appState, videoFile, error, output, failed>>
             ELSE MetadataFailed(f)
        ELSE MetadataFailed(f)
    /\ UNCHANGED <<variant, serviceVars, loadVars, app, compresses>>

\* part_000, handleCompress up to 'await compressVideo(..)' (lines 115-120); the
\* button is rendered in READY with a file selected (lines 218, 297).
\* compressVideo of part_001 throws before any engine call when the video
\* bitrate is not positive (lines 114-116).
HandleCompressPart000 ==
    /\ app = "part000"
    /\ appState = "READY" /\ videoFile # 0
    /\ IF metadata = 0
       THEN UNCHANGED <<appState, compresses>>
       ELSE /\ compresses[videoFile] = "none"
            /\ appState' = "PROCESSING"
            /\ \E feasible \in BOOLEAN :
                compresses' = [compresses EXCEPT ![videoFile] =
                                  IF feasible THEN "writeFile" ELSE "throws"]
    /\ outcome' = "none"
    /\ UNCHANGED <<variant, serviceVars, loadVars, app, videoFile, metadata, error,
                   output, selects, failed>>

\* part_000: 'Remove Video' of the dashboard (line 193), 'Compress Another' of
\* DONE (line 266) and 'Try Again' of ERROR (line 277).
HandleResetPart000 ==
    /\ app = "part000"
    /\ \/ appState \in {"DONE", "ERROR"}
       \/ appState = "READY" /\ videoFile # 0
    /\ Reset
    /\ outcome' = "none"
    /\ UNCHANGED <<variant, serviceVars, loadVars, app, selects, compresses>>

\* An engine call of compressVideo settled, or the promise of a call that threw
\* before its first engine call.  Resolved at the last stage: the blob is
\* stored, DONE (App.tsx 190-195, 353-354; part_000 123-124).  Thrown: the
\* catch of handleCompress sets the error and READY in the first App (App.tsx
\* 196-200), ERROR in the others (App.tsx 355-363; part_000 125-129).
CompressSettles(f) ==
    /\ app \in Apps
    /\ compresses[f] # "none"
    /\ \E ok \in (IF compresses[f] = "throws" THEN {FALSE} ELSE Outcomes) :
        IF ok
        THEN IF StageAfter(CompressStages, compresses[f]) # "done"
             THEN /\ compresses' = [compresses EXCEPT ![f] = StageAfter(CompressStages, @)]
                  /\ UNCHANGED <<appState, error, output, outcome, failed>>
             ELSE /\ compresses' = [compresses EXCEPT ![f] = "none"]
                  /\ output' = f
                  /\ appState' = "DONE"
                  /\ outcome' = "compressResolved"
                  /\ UNCHANGED <<error, failed>>
        ELSE /\ compresses' = [compresses EXCEPT ![f] = "none"]
             /\ error' = "compressFailed"
             /\ appState' = IF app = "App1" THEN "READY" ELSE "ERROR"
             /\ outcome' = "compressRejected"
             /\ failed' = TRUE
             /\ UNCHANGED output
    /\ UNCHANGED <<variant, serviceVars, loadVars, app, videoFile, metadata, selects>>

InitApp ==
    /\ app \in Apps
    /\ variant = ServiceOf(app)
    /\ ServiceIdle
    /\ LoadIdle
    /\ AppUnmounted

NextApp ==
    \/ InitFfmpeg
    \/ InitFfmpegSettles
    \/ ReadyTimer
    \/ HandleFileSelectApp1
    \/ HandleCompressApp1
    \/ ResetStateApp1
    \/ HandleFileChangeApp2
    \/ HandleCompressApp2
    \/ HandleResetApp2
    \/ HandleFileSelectPart000
    \/ \E f \in Files : ThumbnailGenerated(f)
    \/ \E f \in Files : ProbeSettles(f)
    \/ HandleCompressPart000
    \/ HandleResetPart000
    \/ \E f \in Files : CompressSettles(f)

SpecApp == InitApp /\ [][NextApp]_vars

---------------------------------------------------------------------------

Next ==
    \/ loadFfmpeg
    \/ CompressVideoCall
    \/ CompressVideoWritten
    \/ CompressVideoWriteThrows
    \/ CompressVideoExecSettles
    \/ CompressVideoInputDeleted
    \/ CompressVideoRead
    \/ CompressVideoOutputDeleted
    \/ ConvertToGifCall
    \/ ConvertToGifWritten
    \/ ConvertToGifWriteThrows
    \/ ConvertToGifPaletteSettles
    \/ ConvertToGifExecSettles
    \/ ConvertToGifInputDeleted
    \/ ConvertToGifPaletteDeleted
    \/ ConvertToGifRead
    \/ ConvertToGifOutputDeleted
    \/ loadFfmpegPart001
    \/ CompressVideoPart001Call
    \/ CompressVideoPart001Loaded
    \/ CompressVideoPart001Written
    \/ CompressVideoPart001WriteThrows
    \/ CompressVideoPart001ExecSettles
    \/ CompressVideoPart001Read
    \/ CompressVideoPart001InputDeleted
    \/ CompressVideoPart001OutputDeleted
    \/ CompressVideoTimeBasedCall
    \/ CompressVideoTimeBasedWritten
    \/ CompressVideoTimeBasedExecSettles
    \/ CompressVideoTimeBasedRead
    \/ GetVideoMetadataCall
    \/ GetVideoMetadataPart001Call
    \/ GetVideoMetadataPart001Loaded
    \/ GetVideoMetadataWritten
    \/ GetVideoMetadataWriteThrows
    \/ GetVideoMetadataProbed
    \/ GetVideoMetadataDeleted
    \/ EngineProgress
    \/ CallerResumes

Spec == Init /\ [][Next]_vars

---------------------------------------------------------------------------
(* Properties.  The definitions below restate what each property refers to *)
(* without using the operators that model the code.                        *)

\* Seconds of a time string "SS", "MM:SS" or "HH:MM:SS".
SecondsOf(time) ==
    CASE Len(time) = 1 -> time[1]
      [] Len(time) = 2 -> 60 * time[1] + time[2]
      [] Len(time) = 3 -> 3600 * time[1] + 60 * time[2] + time[3]

NoTrim == job.startTime = <<>> /\ job.endTime = <<>>

ValidTrim ==
    /\ job.startTime # <<>>
    /\ job.endTime # <<>>
    /\ SecondsOf(job.endTime) > SecondsOf(job.startTime)

\* The effective duration the specification prescribes for the call's settings.
PrescribedDuration ==
    IF ValidTrim THEN SecondsOf(job.endTime) - SecondsOf(job.startTime)
    ELSE job.duration

\* floor(targetSizeMB*1024*8/seconds - A), A = 0 if removeAudio and 128 otherwise
Budget(seconds) ==
    ((job.targetSizeMB * 1024 * 8) \div seconds) - (IF job.removeAudio THEN 0 ELSE 128)

\* A compressVideo call of ffmpegService.ts that passed the loaded-engine guard.
ServiceCompress ==
    /\ variant = "service"
    /\ job.fn = "compressVideo"
    /\ job.error # "NotLoaded"

ExecCalls == {i \in DOMAIN calls : calls[i].op = "exec"}

DeletedFiles == {calls[i].file : i \in {j \in DOMAIN calls : calls[j].op = "deleteFile"}}

\* C1: for compressVideo of ffmpegService.ts called with duration > 0,
\* targetSizeMB > 0 and no trim, every engine invocation carries '-b:v Nk' with
\* N = floor(targetSizeMB*1024*8/duration - A), A = 0 if removeAudio, else 128.
C1_BitrateOfUntrimmedCall ==
    (ServiceCompress /\ NoTrim) =>
        \A i \in ExecCalls : calls[i].cmd.bv = Budget(job.duration)

\* C1 witness: 60 s, 8 MB, audio kept: the engine is invoked with 964k.
C1_Witness ==
    /\ ServiceCompress /\ NoTrim /\ job.pc = "exec"
    /\ job.duration = 60 /\ job.targetSizeMB = 8 /\ ~job.removeAudio
    /\ \E i \in ExecCalls : calls[i].cmd.bv = 964

\* C2: a compressVideo call that reaches the budget rejects with the
\* infeasible-target error if and only if
\* floor(targetSizeMB*1024*8/effectiveDuration - A) <= 0; 60 s, 1 MB, audio kept
\* (a value of 8) does not, and 300 s, 1 MB, audio kept does.
C2_InfeasibleIffBudgetNotPositive ==
    ServiceCompress =>
        /\ (job.error = "Infeasible") <=> (Budget(PrescribedDuration) <= 0)
        /\ (NoTrim /\ job.duration = 60 /\ job.targetSizeMB = 1 /\ ~job.removeAudio)
              => (job.error # "Infeasible" /\ \A i \in ExecCalls : calls[i].cmd.bv = 8)
        /\ (NoTrim /\ job.duration = 300 /\ job.targetSizeMB = 1 /\ ~job.removeAudio)
              => job.error = "Infeasible"

\* C2 witness: 300 s, 1 MB, audio kept was rejected as infeasible.
C2_Witness ==
    /\ ServiceCompress /\ NoTrim /\ job.pc = "rejected" /\ job.error = "Infeasible"
    /\ job.duration = 300 /\ job.targetSizeMB = 1 /\ ~job.removeAudio

\* C3: the step in which compressVideo rejects because the target size is
\* infeasible makes no engine call and attaches no listener: the scratch files
\* and the attached listeners are those from before the call (both variants).
C3_InfeasibleTouchesNothing ==
    [][(job.error # "Infeasible" /\ job'.error = "Infeasible") =>
          /\ calls' = <<>>
          /\ files' = files
          /\ Stale(listeners') = Stale(listeners)
          /\ \A l \in listeners' : l.owner = "stale"]_vars

\* C3 witness: a call was rejected as infeasible while the engine held files.
C3_Witness ==
    /\ job.fn = "compressVideo" /\ job.error = "Infeasible" /\ files # {}

\* C4: with startTime and endTime both given and end > start, the budget of
\* compressVideo is computed from end - start, not from the full duration.
C4_ValidTrimUsesTrimmedLength ==
    (ServiceCompress /\ ValidTrim) =>
        /\ job.effectiveDuration = SecondsOf(job.endTime) - SecondsOf(job.startTime)
        /\ job.targetVideoBitrate =
              Budget(SecondsOf(job.endTime) - SecondsOf(job.startTime))
        /\ \A i \in ExecCalls :
              calls[i].cmd.bv = Budget(SecondsOf(job.endTime) - SecondsOf(job.startTime))

\* C4 witness: a 300 s source trimmed to [10 s, 60 s] is encoded on a 50 s budget.
C4_Witness ==
    /\ ServiceCompress /\ ValidTrim /\ job.pc = "exec"
    /\ job.duration = 300 /\ job.effectiveDuration = 50
    /\ Budget(50) # Budget(300)

\* C5: with a malformed trim (end <= start, or startTime or endTime missing) the
\* budget of compressVideo is computed from the full source duration, and the
\* divisor is positive.
C5_MalformedTrimFallsBack ==
    (ServiceCompress /\ ~ValidTrim) =>
        /\ job.effectiveDuration = job.duration
        /\ job.effectiveDuration > 0
        /\ job.targetVideoBitrate = Budget(job.duration)

\* C5 witness: end (10 s) before start (60 s) on a 300 s source.
C5_Witness ==
    /\ ServiceCompress /\ job.pc = "exec"
    /\ job.startTime = <<0, 1, 0>> /\ job.endTime = <<10>>
    /\ job.duration = 300 /\ job.effectiveDuration = 300

\* C6: when a compressVideo call of ffmpegService.ts has resolved or rejected,
\* deleteFile has been called on every scratch file it wrote with writeFile.
C6_WrittenFilesAreDeleted ==
    (variant = "service" /\ job.fn = "compressVideo" /\ Settled) =>
        job.wrote \subseteq DeletedFiles

\* C6 witness: the call rejected with the error exec threw, after writing its input.
C6_Witness ==
    /\ variant = "service" /\ job.fn = "compressVideo"
    /\ job.pc = "rejected" /\ job.error = "exec"
    /\ job.wrote = {"input.mp4"}

\* The scratch entries a convertToGif call created: the input copy, and the
\* palette once the palette command has completed.
GifCreated ==
    job.wrote \cup
    (IF \E i \in ExecCalls : calls[i].cmd.out = "output.gif" THEN {"palette.png"} ELSE {})

\* C7: when convertToGif of ffmpegService.ts rejects, whichever sub-stage threw
\* (palette generation, painting, reading the output), deleteFile has been called
\* for every scratch entry the job created.
C7_GifCleanupOnEveryFailure ==
    (variant = "service" /\ job.fn = "convertToGif" /\ job.pc = "rejected"
        /\ job.error \in {"exec", "readFile"}) =>
        GifCreated \subseteq DeletedFiles

\* C8: within one compressVideo or convertToGif call the percentages delivered
\* to onProgress never decrease, whatever raw values the engine emits.
C8_ProgressNeverDecreases ==
    (variant = "service" /\ job.fn \in {"compressVideo", "convertToGif"}) =>
        \A i \in DOMAIN delivered : \A j \in DOMAIN delivered :
            i < j => delivered[i] <= delivered[j]

C10_PercentageInRange ==
    \A i \in DOMAIN delivered : delivered[i] \in 0..100

\* C19: compressVideo of ffmpegService.ts is two-pass with weighted progress: a
\* call that resolved has invoked the engine twice (analysis, then encode), and
\* during the first invocation no percentage above 31 is delivered (a pass-1
\* raw fraction of 1.0 is overall percent 30, within 1).
C19_TwoPassWeightedProgress ==
    ServiceCompress =>
        /\ job.pc = "resolved" => Cardinality(ExecCalls) = 2
        /\ (job.pc = "exec" /\ Cardinality(ExecCalls) = 1) =>
                \A i \in DOMAIN delivered : delivered[i] <= 31

\* C20: when exec threw in compressVideo or convertToGif of ffmpegService.ts and
\* the call has rejected, it rejected with the error exec threw, also when a
\* cleanup deleteFile threw after it.
C20_ExecErrorSurvivesCleanup ==
    (variant = "service" /\ job.fn \in {"compressVideo", "convertToGif"}
        /\ job.pc = "rejected" /\ job.thrown = "exec") =>
        job.error = "exec"

\* What a paint-stage raw fraction is to be reported as: the band start 50 plus
\* round(f clamped to [0, 1] * 50), f in thousandths.
PaintBand(f) ==
    50 + Round((IF f < 0 THEN 0 ELSE IF f > 1000 THEN 1000 ELSE f) * 50, 1000)

\* C25: in convertToGif of ffmpegService.ts, during the palette invocation only
\* the initial 0 has been reported (no event of that invocation is reported);
\* from its completion on the reports are 0, 50, and then for each paint-stage
\* event of raw fraction f the value 50 + round(f clamped to [0,1] * 50).
C25_GifProgressBands ==
    (variant = "service" /\ job.fn = "convertToGif") =>
        /\ job.pc = "paletteExec" => delivered = <<0>>
        /\ job.pc = "gifExec" =>
            /\ Len(delivered) >= 2 /\ delivered[1] = 0 /\ delivered[2] = 50
            /\ \A i \in 3..Len(delivered) :
                  delivered[i] \in {PaintBand(e.progress) : e \in ProgressEvents}

\* C26: in compressVideo of part_001 every engine invocation carries '-b:v Nk'
\* with N > 0 (a call whose budget is not positive fails before any invocation).
C26_BitrateArgumentPositive ==
    (variant = "part001" /\ job.fn = "compressVideo") =>
        \A i \in ExecCalls : calls[i].cmd.bv > 0

\* C27: in compressVideo of part_001, an engine invocation that carries a valid
\* trim (end > start) as -ss/-to carries the bitrate of the trimmed length:
\* N = round(targetSizeMB*1024*8/(end - start) - A), A = 0 if removeAudio, else 128.
C27_Part001BudgetFromTrim ==
    (variant = "part001" /\ job.fn = "compressVideo" /\ ValidTrim) =>
        \A i \in ExecCalls :
            (calls[i].cmd.ss = job.startTime /\ calls[i].cmd.to = job.endTime) =>
                calls[i].cmd.bv =
                    Round(job.targetSizeMB * 1024 * 8
                            - (IF job.removeAudio THEN 0 ELSE 128) * PrescribedDuration,
                          PrescribedDuration)

\* C29: in ffmpegService.ts, a call of getVideoMetadata, compressVideo or
\* convertToGif made while the engine is not loaded rejects with 'FFMPEG is not
\* loaded.' in the step that makes it: no engine call (writeFile, exec) is
\* made, the engine's files are as before and no listener is attached.
C29_NotLoadedTouchesNothing ==
    [][(/\ variant = "service"
        /\ ffmpeg # "loaded"
        /\ job.pc = "idle"
        /\ job'.fn \in {"getVideoMetadata", "compressVideo", "convertToGif"}) =>
          /\ job'.pc = "rejected"
          /\ job'.error = "NotLoaded"
          /\ calls' = <<>>
          /\ files' = files
          /\ Stale(listeners') = Stale(listeners)
          /\ \A l \in listeners' : l.owner = "stale"]_vars

\* C29 witness: a probe called with no loaded engine has rejected.
C29_Witness ==
    /\ variant = "service" /\ ffmpeg # "loaded"
    /\ job.fn = "getVideoMetadata" /\ job.pc = "rejected" /\ job.error = "NotLoaded"
    /\ calls = <<>> /\ files = {}

\* C21: in ffmpegService.ts, whenever no call is running (none made yet, or the
\* last compressVideo or convertToGif call has resolved or rejected), no
\* progress listener a call attached remains on the engine.
C21_ListenerDetachedAfterCall ==
    (variant = "service" /\ ~InFlight) => listeners = {}

\* C21 witness: a compressVideo call whose exec threw has rejected.
C21_Witness ==
    /\ variant = "service" /\ job.fn = "compressVideo"
    /\ job.pc = "rejected" /\ job.thrown = "exec"
    /\ \E i \in DOMAIN calls : calls[i].op = "exec"
    /\ listeners = {}

\* C22: in part_001 and in the compressVideo variants of App.tsx, when the
\* engine emits a progress event during a job, no listener of an earlier job is
\* attached to be run by it: the event invokes only the running job's onProgress.
C22_NoCrossJobProgress ==
    [][(variant \in {"part001", "timeBased"} /\ emitted' = emitted + 1) =>
            \A l \in listeners : l.owner = "current"]_vars

---------------------------------------------------------------------------
(* Properties of getVideoMetadata *)

\* The call ran its probe and its cleanup and reached the check on what it parsed.
ReachedCheck ==
    /\ job.fn = "getVideoMetadata"
    /\ Settled
    /\ job.error \in {"", "NoMetadata"}

\* 0.F of the Duration line in milliseconds; F has at most three digits here.
FractionMs(digits) ==
    CASE Len(digits) = 1 -> ParseInt(digits) * 100
      [] Len(digits) = 2 -> ParseInt(digits) * 10
      [] Len(digits) = 3 -> ParseInt(digits)

\* C23: when a getVideoMetadata call that wrote its scratch file has resolved
\* or rejected, its log listener is no longer attached and deleteFile has been
\* called on the scratch file, whether or not the probe threw and whatever
\* was parsed.
C23_ProbeCleanup ==
    (job.fn = "getVideoMetadata" /\ Settled /\ job.wrote # {}) =>
        /\ \A l \in listeners : l.kind # "log"
        /\ job.wrote \subseteq DeletedFiles

\* C23 witness: the probe threw and nothing was parsed; the call rejected at
\* its check.
C23_Witness ==
    /\ job.fn = "getVideoMetadata" /\ job.pc = "rejected"
    /\ job.wrote # {} /\ job.thrown = "exec" /\ job.error = "NoMetadata"

\* C24: the scratch name a getVideoMetadata call is about to write is not the
\* name of an entry an earlier call (a probe or a compression) left in the
\* engine's filesystem: the names of any two calls differ, so no call
\* overwrites or deletes another call's input.
C24_ProbeNameIsFresh ==
    (job.fn = "getVideoMetadata" /\ job.pc = "writeFile") => job.scratch \notin files

\* C14: a getVideoMetadata call that reached its check has rejected exactly
\* when the duration it parsed is 0 or the width it parsed is 0 (undetermined),
\* whether or not the probe threw.
C14_RejectsIffNoDurationOrWidth ==
    ReachedCheck =>
        (job.pc = "rejected" <=> (job.info.duration = 0 \/ job.info.width = 0))

\* C15: a getVideoMetadata call that resolved after a probe that logged
\* 'Duration: HH:MM:SS.F' returns HH*3600 + MM*60 + SS + 0.F seconds.
C15_DurationOfLogLine ==
    (job.fn = "getVideoMetadata" /\ job.pc = "resolved" /\ job.log.duration # <<>>) =>
        job.info.duration =
            (job.log.duration[1] * 3600 + job.log.duration[2] * 60
                + job.log.duration[3]) * 1000 + FractionMs(job.log.duration[4])

---------------------------------------------------------------------------
(* Properties of loadFfmpeg, under SpecLoad *)

\* C11: across any sequence and interleaving of loadFfmpeg calls at most one
\* engine instance is ever constructed.
C11_AtMostOneInstance == created <= 1

\* C12: a loadFfmpeg call that has resolved did so at a moment when the
\* module-level handle was a loaded instance.
C12_ResolvedMeansHandleLoaded ==
    \A c \in Callers : loaders[c].pc = "resolved" => loaders[c].handleLoaded

---------------------------------------------------------------------------
(* Properties of the App components, under SpecApp *)

\* The engine invocations (exec) in flight: probes and encodes.
ExecsInFlight ==
    Cardinality({f \in Files : selects[f] = "exec"})
        + Cardinality({f \in Files : compresses[f] = "exec"})

\* C13: in the App of part_000 no two engine invocations (the probe exec of
\* getVideoMetadata, the encode exec of compressVideo) are in flight at the
\* same time.
C13_OneInvocationInFlight == app = "part000" => ExecsInFlight <= 1

\* C16: in every App, once a compression has failed no compression starts
\* until a reset has run.
C16_FailedJobIsTerminal ==
    [][failed => \A f \in Files : compresses[f] = "none" => compresses'[f] = "none"]_vars

\* C17: in the App of part_000, when the last service call to settle was a
\* getVideoMetadata or a compressVideo that rejected and the user has not
\* acted since, the App holds an error message.
C17_RejectionLeavesError ==
    (app = "part000" /\ outcome \in {"probeRejected", "compressRejected"}) =>
        error # ""

\* C18: once the load of the engine has failed, the App is never in PROCESSING.
C18_LoadFailureIsFatal ==
    (ffmpeg = "created" /\ appState # "LOADING_FFMPEG") => appState # "PROCESSING"

\* C28: in the App of part_000 the metadata held in state, if any, was probed
\* from the file currently selected: none is held for a file that was discarded.
C28_MetadataOfSelectedFile ==
    (app = "part000" /\ metadata # 0) => metadata = videoFile

\* C30: in the first App of App.tsx, whenever the state is DONE the output is
\* set and no error message is held.
C30_DoneHasOutputAndNoError ==
    (app = "App1" /\ appState = "DONE") => (output # 0 /\ error = "")

=============================================================================
